---- MODULE Spec2Model ----
(***************************************************************************)
(* Model of upsnpscalculator.js: the UPS/NPS pension comparison.           *)
(*                                                                         *)
(* A JavaScript number is modelled as an extended rational [n, d]:         *)
(*   d > 0        the finite value n/d in lowest terms,                    *)
(*   n = 0, d = 0 NaN,   n = 1, d = 0 +Infinity,   n = -1, d = 0 -Infinity.*)
(* Arithmetic is exact (no binary rounding, no signed zero); NaN and the   *)
(* infinities propagate and compare as IEEE-754 numbers do in JavaScript.  *)
(***************************************************************************)
EXTENDS Integers, Sequences, FiniteSets, TLC

VARIABLES pc, entry, inp, m, called, args, corpus, year, upsMonthly,
          minReturnRate, trace, log, result, runs, page

vars == <<pc, entry, inp, m, called, args, corpus, year, upsMonthly,
          minReturnRate, trace, log, result, runs, page>>

(***************************************************************************)
(* Bounds of the explored inputs.                                          *)
(***************************************************************************)
MaxLifeYears == 2
MaxSpouseYears == 2
MaxCorpusUnits == 2
MaxUpsMonthly == 2
MaxAge == 3
MaxSalaryUnits == 1
MaxServiceYears == 26
MaxContribYears == 3
MaxRuns == 2
MaxOutsideLogs == 1

(***************************************************************************)
(* Numbers.                                                                *)
(***************************************************************************)
Abs(i) == IF i < 0 THEN -i ELSE i

Sgn(i) == IF i < 0 THEN -1 ELSE IF i > 0 THEN 1 ELSE 0

RECURSIVE GCD(_, _)
GCD(a, b) == IF b = 0 THEN a ELSE GCD(b, a % b)

NaN == [n |-> 0, d |-> 0]

Infinity == [n |-> 1, d |-> 0]

Inf(s) == [n |-> Sgn(s), d |-> 0]

\* the finite number n/d (d # 0), in lowest terms with a positive denominator
Rat(n, d) ==
    LET g == GCD(Abs(n), Abs(d))
    IN  [n |-> Sgn(d) * (n \div g), d |-> Abs(d) \div g]

Num(i) == [n |-> i, d |-> 1]

Zero == Num(0)

One == Num(1)

null == [n |-> 0, d |-> -1]

IsNaN(x) == x.d = 0 /\ x.n = 0

isFinite(x) == x.d > 0

Neg(x) == [n |-> -x.n, d |-> x.d]

Add(x, y) ==
    IF IsNaN(x) \/ IsNaN(y) THEN NaN
    ELSE IF isFinite(x) /\ isFinite(y) THEN Rat(x.n * y.d + y.n * x.d, x.d * y.d)
    ELSE IF ~isFinite(x) /\ ~isFinite(y) THEN (IF x.n = y.n THEN x ELSE NaN)
    ELSE IF ~isFinite(x) THEN x ELSE y

Sub(x, y) == Add(x, Neg(y))

Mul(x, y) ==
    IF IsNaN(x) \/ IsNaN(y) THEN NaN
    ELSE IF isFinite(x) /\ isFinite(y) THEN Rat(x.n * y.n, x.d * y.d)
    ELSE Inf(Sgn(x.n) * Sgn(y.n))

Div(x, y) ==
    IF IsNaN(x) \/ IsNaN(y) THEN NaN
    ELSE IF isFinite(y) /\ y.n # 0
         THEN (IF isFinite(x) THEN Rat(x.n * y.d, x.d * y.n)
                              ELSE Inf(x.n * Sgn(y.n)))
    ELSE IF isFinite(y)
         THEN Inf(x.n)
    ELSE IF isFinite(x) THEN Zero ELSE NaN

\* x < y; every comparison with NaN is false
Lt(x, y) ==
    /\ ~IsNaN(x)
    /\ ~IsNaN(y)
    /\ IF isFinite(x) /\ isFinite(y) THEN x.n * y.d < y.n * x.d
       ELSE IF ~isFinite(x) THEN x.n < 0 /\ ~(~isFinite(y) /\ y.n < 0)
       ELSE y.n > 0

Gt(x, y) == Lt(y, x)

Le(x, y) == ~IsNaN(x) /\ ~IsNaN(y) /\ ~Lt(y, x)

Ge(x, y) == Le(y, x)

MathMax(x, y) == IF IsNaN(x) \/ IsNaN(y) THEN NaN ELSE IF Lt(x, y) THEN y ELSE x

MathMin(x, y) == IF IsNaN(x) \/ IsNaN(y) THEN NaN ELSE IF Lt(y, x) THEN y ELSE x

\* x^e for a non-negative integer e
RECURSIVE PowInt(_, _)
PowInt(x, e) == IF e = 0 THEN One ELSE Mul(x, PowInt(x, e - 1))

\* Math.pow(x, e) for an integer-valued or NaN exponent e
MathPow(x, e) ==
    IF IsNaN(e) THEN NaN
    ELSE IF e.n = 0 THEN One
    ELSE IF IsNaN(x) THEN NaN
    ELSE IF e.n > 0 THEN PowInt(x, e.n)
    ELSE Div(One, PowInt(x, -e.n))

(***************************************************************************)
(* Program constants.                                                      *)
(***************************************************************************)
UPS_PENSION_FACTOR == Rat(1, 2)

UPS_SPOUSE_FACTOR == Rat(3, 5)

NPS_ANNUITY_PORTION == Rat(2, 5)
\* mutant: the whole corpus is taken as the lump sum
NPS_LUMP_SUM_PORTION_Whole == One

NPS_LUMP_SUM_PORTION == Rat(3, 5)

MONTHS_PER_YEAR == Num(12)

(***************************************************************************)
(* calculateCorpusDepletionYears: the quantities of one loop iteration,    *)
(* as functions of the loop's state (k = year, c = corpus, u = upsMonthly).*)
(***************************************************************************)
totalYears(a) == Add(a.employeeLifeYears, a.spouseAdditionalYears)

\* mutant: the spouse phase starts one year late
isSpousePhase_Late(a, k) == Gt(Num(k), a.employeeLifeYears)

isSpousePhase(a, k) == Ge(Num(k), a.employeeLifeYears)

phase(a, k) == IF isSpousePhase(a, k) THEN "Spouse" ELSE "Employee"

\* mutant: the spouse pension is 0.6 times the initial pension
currentUps_SpouseOfInitial(a, k, u) ==
    IF isSpousePhase(a, k) THEN Mul(a.upsMonthlyInitial, UPS_SPOUSE_FACTOR) ELSE u

currentUps(a, k, u) == Mul(u, IF isSpousePhase(a, k) THEN UPS_SPOUSE_FACTOR ELSE One)

yearlyUps(a, k, u) == Mul(currentUps(a, k, u), MONTHS_PER_YEAR)

upsReturn(a) == Mul(a.upsLumpSum, a.corpusReturn)

totalUpsIncome(a, k, u) == Add(yearlyUps(a, k, u), upsReturn(a))

interestEarned(a, c) == Mul(c, a.corpusReturn)

yearlyNps(a) == Mul(a.npsMonthly, MONTHS_PER_YEAR)

totalNpsIncome(a, c) == Add(yearlyNps(a), interestEarned(a, c))

yearlyDifference(a, k, c, u) == Sub(totalUpsIncome(a, k, u), totalNpsIncome(a, c))

\* mutant: the row is printed after the corpus update
Row_AfterUpdate(a, k, c, u) ==
    [year |-> k,
     yearlyUps |-> yearlyUps(a, k, u),
     upsReturn |-> upsReturn(a),
     totalUpsIncome |-> totalUpsIncome(a, k, u),
     yearlyNps |-> yearlyNps(a),
     interestEarned |-> interestEarned(a, c),
     totalNpsIncome |-> totalNpsIncome(a, c),
     yearlyDifference |-> yearlyDifference(a, k, c, u),
     corpus |-> Sub(Mul(c, Add(One, a.corpusReturn)),
                    MathMax(Zero, yearlyDifference(a, k, c, u))),
     phase |-> phase(a, k)]

\* mutant: the rows are numbered from 1
Row_OneBased(a, k, c, u) ==
    [year |-> k + 1,
     yearlyUps |-> yearlyUps(a, k, u),
     upsReturn |-> upsReturn(a),
     totalUpsIncome |-> totalUpsIncome(a, k, u),
     yearlyNps |-> yearlyNps(a),
     interestEarned |-> interestEarned(a, c),
     totalNpsIncome |-> totalNpsIncome(a, c),
     yearlyDifference |-> yearlyDifference(a, k, c, u),
     corpus |-> c,
     phase |-> phase(a, k)]

\* mutant: the UPS lump sum shrinks in step with the NPS corpus
Row_UpsLumpSumDrawnDown(a, k, c, u) ==
    [year |-> k,
     yearlyUps |-> yearlyUps(a, k, u),
     upsReturn |-> Mul(upsReturn(a), Div(c, a.initialCorpus)),
     totalUpsIncome |-> totalUpsIncome(a, k, u),
     yearlyNps |-> yearlyNps(a),
     interestEarned |-> interestEarned(a, c),
     totalNpsIncome |-> totalNpsIncome(a, c),
     yearlyDifference |-> yearlyDifference(a, k, c, u),
     corpus |-> c,
     phase |-> phase(a, k)]

\* the values printed in the row of one year
Row(a, k, c, u) ==
    [year |-> k,
     yearlyUps |-> yearlyUps(a, k, u),
     upsReturn |-> upsReturn(a),
     totalUpsIncome |-> totalUpsIncome(a, k, u),
     yearlyNps |-> yearlyNps(a),
     interestEarned |-> interestEarned(a, c),
     totalNpsIncome |-> totalNpsIncome(a, c),
     yearlyDifference |-> yearlyDifference(a, k, c, u),
     corpus |-> c,
     phase |-> phase(a, k)]

\* mutant: the loop does not test the corpus
LoopCondition_YearsOnly(a, k, c) == Lt(Num(k), totalYears(a))

\* mutant: the year bound is inclusive
LoopCondition_Inclusive(a, k, c) == Gt(c, Zero) /\ Le(Num(k), totalYears(a))

LoopCondition(a, k, c) == Gt(c, Zero) /\ Lt(Num(k), totalYears(a))

\* mutant: the perpetuity test is made in every year
PerpetualCondition_AnyYear(a, k, c, u) ==
    Ge(totalNpsIncome(a, c), totalUpsIncome(a, k, u))

\* mutant: the perpetuity test compares the incomes the wrong way round
PerpetualCondition_Reversed(a, k, c, u) ==
    k = 0 /\ Le(totalNpsIncome(a, c), totalUpsIncome(a, k, u))

\* mutant: the perpetuity test is strict
PerpetualCondition_Strict(a, k, c, u) ==
    k = 0 /\ Gt(totalNpsIncome(a, c), totalUpsIncome(a, k, u))

PerpetualCondition(a, k, c, u) ==
    k = 0 /\ Ge(totalNpsIncome(a, c), totalUpsIncome(a, k, u))

\* mutant: a surplus is credited to the corpus
CorpusUpdate_CreditSurplus(a, k, c, u) ==
    Sub(Mul(c, Add(One, a.corpusReturn)),
        Sub(totalUpsIncome(a, k, u), totalNpsIncome(a, c)))

\* mutant: the shortfall is never subtracted
CorpusUpdate_GrowthOnly(a, k, c, u) == Mul(c, Add(One, a.corpusReturn))

\* mutant: the shortfall is subtracted before the growth is applied
CorpusUpdate_SubtractFirst(a, k, c, u) ==
    Mul(Sub(c, MathMax(Zero, Sub(totalUpsIncome(a, k, u), totalNpsIncome(a, c)))),
        Add(One, a.corpusReturn))

CorpusUpdate(a, k, c, u) ==
    Sub(Mul(c, Add(One, a.corpusReturn)),
        MathMax(Zero, Sub(totalUpsIncome(a, k, u), totalNpsIncome(a, c))))

UpsMonthlyUpdate(a, u) == Mul(u, Add(One, a.postRetGrowth))

(***************************************************************************)
(* The closed-form calculators.                                            *)
(***************************************************************************)
calculateFinalSalary(currentSalary, growthRate, years) ==
    Mul(currentSalary, MathPow(Add(One, growthRate), years))

\* mutant: the service factor is not capped
calculateUPSMonthlyPension_NoCap(finalSalary, yearsOfService) ==
    Div(Mul(Mul(Div(yearsOfService, Num(25)), UPS_PENSION_FACTOR), finalSalary),
        MONTHS_PER_YEAR)

calculateUPSMonthlyPension(finalSalary, yearsOfService) ==
    LET serviceFactor == MathMin(Div(yearsOfService, Num(25)), One)
        annualPension == Mul(Mul(serviceFactor, UPS_PENSION_FACTOR), finalSalary)
    IN  Div(annualPension, MONTHS_PER_YEAR)

\* mutant: the service counted for the lump sum is capped at 25 years
calculateUPSLumpSum_Capped(finalSalaryAnnual, yearsOfService) ==
    Mul(Mul(Div(One, Num(10)), Div(finalSalaryAnnual, MONTHS_PER_YEAR)),
        Mul(MathMin(yearsOfService, Num(25)), Num(2)))

calculateUPSLumpSum(finalSalaryAnnual, yearsOfService) ==
    LET lastMonthlySalary == Div(finalSalaryAnnual, MONTHS_PER_YEAR)
        numSixMonthPeriods == Mul(yearsOfService, Num(2))
    IN  Mul(Mul(Div(One, Num(10)), lastMonthlySalary), numSixMonthPeriods)

\* mutant: each contribution is compounded from the beginning of its year
RECURSIVE NPSCorpusLoop_BeginOfYear(_, _, _, _, _, _, _)
NPSCorpusLoop_BeginOfYear(i, acc, currentSalary, growthRate, years, totalContribRate, annualReturn) ==
    IF ~Le(Num(i), years) THEN acc
    ELSE NPSCorpusLoop_BeginOfYear(i + 1,
             Add(acc, Mul(Mul(totalContribRate,
                              Mul(currentSalary, MathPow(Add(One, growthRate), Num(i)))),
                          MathPow(Add(One, annualReturn), Add(Sub(years, Num(i)), One)))),
             currentSalary, growthRate, years, totalContribRate, annualReturn)

\* the for loop of calculateNPSCorpus from index i on, acc being `corpus`
RECURSIVE NPSCorpusLoop(_, _, _, _, _, _, _)
NPSCorpusLoop(i, acc, currentSalary, growthRate, years, totalContribRate, annualReturn) ==
    IF ~Le(Num(i), years) THEN acc
    ELSE LET salaryAtYear == Mul(currentSalary, MathPow(Add(One, growthRate), Num(i)))
             annualContribution == Mul(totalContribRate, salaryAtYear)
             yearsToCompound == Sub(years, Num(i))
         IN  NPSCorpusLoop(i + 1,
                 Add(acc, Mul(annualContribution,
                              MathPow(Add(One, annualReturn), yearsToCompound))),
                 currentSalary, growthRate, years, totalContribRate, annualReturn)

\* mutant: the existing corpus is compounded with annualReturn instead of 1 + annualReturn
calculateNPSCorpus_PowOfReturn(currentSalary, growthRate, years, totalContribRate, annualReturn, existingCorpus) ==
    NPSCorpusLoop(1, Mul(existingCorpus, MathPow(annualReturn, years)),
                  currentSalary, growthRate, years, totalContribRate, annualReturn)

calculateNPSCorpus(currentSalary, growthRate, years, totalContribRate, annualReturn, existingCorpus) ==
    NPSCorpusLoop(1, Mul(existingCorpus, MathPow(Add(One, annualReturn), years)),
                  currentSalary, growthRate, years, totalContribRate, annualReturn)

calculateNPSMonthlyPension(c, annuityRate) ==
    LET annualAnnuityPension == Mul(Mul(NPS_ANNUITY_PORTION, c), annuityRate)
    IN  Div(annualAnnuityPension, MONTHS_PER_YEAR)

(***************************************************************************)
(* Input text.  A numeral is written as the number it denotes; NonNumeric  *)
(* is any text that does not start with a numeral.                         *)
(***************************************************************************)
NonNumeric == [n |-> 0, d |-> -2]

\* parseInt: the integer part of the numeral, NaN for other text
parseInt(s) == IF s = NonNumeric THEN NaN ELSE Num(Sgn(s.n) * (Abs(s.n) \div s.d))

\* parseFloat: the value of the numeral, NaN for other text
parseFloat(s) == IF s = NonNumeric THEN NaN ELSE s

LAKH == Num(100000)

\* main, lines 193-216: the parsed inputs and the two year counts
Parsed(i) ==
    LET employeeRate == parseFloat(i.employeeRate)
        employerRate == parseFloat(i.employerRate)
        retirementAge == parseInt(i.retirementAge)
    IN  [currentAge |-> parseInt(i.currentAge),
         retirementAge |-> retirementAge,
         currentSalary |-> Mul(parseFloat(i.currentSalary), LAKH),
         growthRate |-> parseFloat(i.growthRate),
         existingCorpus |-> Mul(parseFloat(i.existingCorpus), LAKH),
         employeeRate |-> employeeRate,
         employerRate |-> employerRate,
         totalContribRate |-> Add(employeeRate, employerRate),
         annualReturn |-> parseFloat(i.annualReturn),
         annuityRate |-> parseFloat(i.annuityRate),
         postRetGrowth |-> parseFloat(i.postRetGrowth),
         corpusReturn |-> parseFloat(i.corpusReturn),
         employeeLifeYears |-> parseInt(i.employeeLifeYears),
         spouseAdditionalYears |-> parseInt(i.spouseAdditionalYears),
         joinAge |-> parseInt(i.joinAge),
         yearsOfService |-> Sub(retirementAge, parseInt(i.joinAge)),
         yearsToRetirement |-> Sub(retirementAge, parseInt(i.currentAge)),
         finalSalary |-> null, upsMonthly |-> null, upsLumpSumAmount |-> null,
         yearlyUpsReturn |-> null, corpus |-> null, npsMonthly |-> null,
         lumpSum |-> null, depletionYears |-> null, totalCoverageNeeded |-> null,
         shortfallYears |-> null, minReturnRate |-> null]

\* main, lines 223-234: the results of the calculators
Calculated(p) ==
    LET finalSalary == calculateFinalSalary(p.currentSalary, p.growthRate, p.yearsToRetirement)
        upsLumpSumAmount == calculateUPSLumpSum(finalSalary, p.yearsOfService)
        c == calculateNPSCorpus(p.currentSalary, p.growthRate, p.yearsToRetirement,
                                p.totalContribRate, p.annualReturn, p.existingCorpus)
    IN  [p EXCEPT !.finalSalary = finalSalary,
                  !.upsMonthly = calculateUPSMonthlyPension(finalSalary, p.yearsOfService),
                  !.upsLumpSumAmount = upsLumpSumAmount,
                  !.yearlyUpsReturn = Mul(upsLumpSumAmount, p.corpusReturn),
                  !.corpus = c,
                  !.npsMonthly = calculateNPSMonthlyPension(c, p.annuityRate),
                  !.lumpSum = Mul(c, NPS_LUMP_SUM_PORTION)]

\* main, lines 236-245: the arguments of calculateCorpusDepletionYears
EngineArgs(p) ==
    [initialCorpus |-> p.lumpSum,
     upsMonthlyInitial |-> p.upsMonthly,
     npsMonthly |-> p.npsMonthly,
     employeeLifeYears |-> p.employeeLifeYears,
     spouseAdditionalYears |-> p.spouseAdditionalYears,
     postRetGrowth |-> p.postRetGrowth,
     corpusReturn |-> p.corpusReturn,
     upsLumpSum |-> p.upsLumpSumAmount]

Calculators ==
    {"calculateFinalSalary", "calculateUPSMonthlyPension", "calculateUPSLumpSum",
     "calculateNPSCorpus", "calculateNPSMonthlyPension",
     "calculateCorpusDepletionYears"}

(***************************************************************************)
(* Inputs explored.                                                        *)
(***************************************************************************)
CorpusValues == {NaN} \cup {Num(12 * k) : k \in -1..MaxCorpusUnits}

UpsMonthlyValues == {NaN} \cup {Num(k) : k \in 0..MaxUpsMonthly}

NpsMonthlyValues == {Num(0), Num(1)}

LifeYearsValues == {NaN} \cup {Num(k) : k \in -1..MaxLifeYears}

SpouseYearsValues == {Num(k) : k \in -1..MaxSpouseYears}

GrowthValues == {Zero, One, Rat(-1, 2)}

ReturnValues == {Zero, Rat(1, 2)}

UpsLumpSumValues == {Zero, Num(12)}

DirectArgs ==
    [initialCorpus : CorpusValues,
     upsMonthlyInitial : UpsMonthlyValues,
     npsMonthly : NpsMonthlyValues,
     employeeLifeYears : LifeYearsValues,
     spouseAdditionalYears : SpouseYearsValues,
     postRetGrowth : GrowthValues,
     corpusReturn : ReturnValues,
     upsLumpSum : UpsLumpSumValues]

NoArgs ==
    [initialCorpus |-> NaN, upsMonthlyInitial |-> NaN, npsMonthly |-> NaN,
     employeeLifeYears |-> NaN, spouseAdditionalYears |-> NaN,
     postRetGrowth |-> NaN, corpusReturn |-> NaN, upsLumpSum |-> NaN]

AgeTexts == {NonNumeric, Rat(3, 2)} \cup {Num(k) : k \in 1..MaxAge}

SalaryTexts == {NonNumeric} \cup {Rat(12 * k, 100000) : k \in 0..MaxSalaryUnits}

ExistingCorpusTexts == {Rat(-12, 100000), Zero, Rat(12, 100000)}

LifeYearsTexts == {Num(k) : k \in 0..MaxLifeYears}

SpouseYearsTexts == {Num(-1), Num(0), Num(1)}

MainInputs ==
    [currentAge : AgeTexts \ {Num(MaxAge)},
     retirementAge : {Num(k) : k \in 2..MaxAge},
     currentSalary : SalaryTexts,
     growthRate : {Zero, One},
     existingCorpus : ExistingCorpusTexts,
     employeeRate : {Zero},
     employerRate : {Zero, Rat(1, 50)},
     annualReturn : {Zero, One},
     annuityRate : {Zero, Rat(1, 2)},
     postRetGrowth : {Zero, One},
     corpusReturn : {Zero, Rat(1, 2)},
     employeeLifeYears : LifeYearsTexts,
     spouseAdditionalYears : SpouseYearsTexts,
     joinAge : {Num(1), Num(MaxAge)}]

NoInputs == [f \in DOMAIN Parsed(CHOOSE i \in MainInputs : TRUE) |-> null]

\* the page as loaded: an empty results area and the browser's own console.log
FreshPage == [results |-> <<>>, consoleLog |-> "original", run |-> 0,
              console |-> <<>>, outside |-> 0]

(***************************************************************************)
(* A direct call of calculateCorpusDepletionYears, after lines 85-95.      *)
(***************************************************************************)
InitDirect ==
    /\ entry = "direct"
    /\ pc = "loop"
    /\ inp = NoInputs
    /\ m = NoInputs
    /\ called = {"calculateCorpusDepletionYears"}
    /\ args \in DirectArgs
    /\ corpus = args.initialCorpus
    /\ year = 0
    /\ upsMonthly = args.upsMonthlyInitial
    /\ minReturnRate = null
    /\ trace = <<>>
    /\ log = <<"Header">>
    /\ result = null
    /\ runs = <<>>
    /\ page = FreshPage

(***************************************************************************)
(* A run of main, after the inputs are read and parsed (lines 193-216).    *)
(***************************************************************************)
InitMain ==
    /\ entry = "main"
    /\ pc = "validate"
    /\ inp \in MainInputs
    /\ m = Parsed(inp)
    /\ called = {}
    /\ args = NoArgs
    /\ corpus = null
    /\ year = 0
    /\ upsMonthly = null
    /\ minReturnRate = null
    /\ trace = <<>>
    /\ log = <<>>
    /\ result = null
    /\ runs = <<>>
    /\ page = FreshPage

(***************************************************************************)
(* A direct call of one of the closed-form calculators; the arguments are  *)
(* held in the fields of m that carry the parameters' names (years is      *)
(* yearsToRetirement, finalSalaryAnnual is finalSalary).                   *)
(***************************************************************************)
ServiceYearsValues ==
    {NaN, Num(-1), Rat(1, 4), Rat(101, 4)} \cup {Num(k) : k \in 0..MaxServiceYears}

FinalSalaryValues == {Num(-12), Zero, Num(12), Num(600)}

PensionCallArgs ==
    {[NoInputs EXCEPT !.finalSalary = fs, !.yearsOfService = yos] :
        fs \in FinalSalaryValues, yos \in ServiceYearsValues}

CorpusCallArgs ==
    {[NoInputs EXCEPT !.currentSalary = cs, !.growthRate = g,
                      !.yearsToRetirement = Num(y), !.totalContribRate = tcr,
                      !.annualReturn = ar, !.existingCorpus = ec] :
        cs \in {Zero, Num(12)}, g \in {Zero, One, Rat(-1, 2)},
        y \in 0..MaxContribYears, tcr \in {Zero, Rat(1, 2)},
        ar \in {Zero, One, Rat(1, 2)}, ec \in {Num(-12), Zero, Num(12)}}

InitUnit ==
    /\ entry = "unit"
    /\ pc = "call"
    /\ inp = NoInputs
    /\ \/ /\ called \in {{"calculateUPSMonthlyPension"}, {"calculateUPSLumpSum"}}
          /\ m \in PensionCallArgs
       \/ /\ called = {"calculateNPSCorpus"}
          /\ m \in CorpusCallArgs
    /\ args = NoArgs
    /\ corpus = null
    /\ year = 0
    /\ upsMonthly = null
    /\ minReturnRate = null
    /\ trace = <<>>
    /\ log = <<>>
    /\ result = null
    /\ runs = <<>>
    /\ page = FreshPage

\* index.html loaded in a browser, before the first click
InitBrowser ==
    /\ entry = "browser"
    /\ pc = "idle"
    /\ inp = NoInputs
    /\ m = NoInputs
    /\ called = {}
    /\ args = NoArgs
    /\ corpus = null
    /\ year = 0
    /\ upsMonthly = null
    /\ minReturnRate = null
    /\ trace = <<>>
    /\ log = <<>>
    /\ result = null
    /\ runs = <<>>
    /\ page = FreshPage

Init == InitDirect \/ InitMain \/ InitUnit \/ InitBrowser

\* what run n writes with console.log until calculateResults returns
RunOutput(n, outcome) ==
    IF outcome = "completed"
    THEN <<[run |-> n, text |-> "Banner"], [run |-> n, text |-> "Report"]>>
    ELSE <<[run |-> n, text |-> "Error"]>>

\* mutant: console.log is restored at the end of the try block only
calculateResults_RestoreInTry ==
    /\ entry = "browser"
    /\ pc = "idle"
    /\ page.run < MaxRuns
    /\ \E outcome \in {"completed", "threw"} :
           LET originalLog == page.consoleLog
           IN  page' = [page EXCEPT !.results = RunOutput(page.run + 1, outcome),
                                    !.consoleLog = IF outcome = "threw" THEN "redirected"
                                                   ELSE originalLog,
                                    !.run = page.run + 1]
    /\ UNCHANGED <<pc, entry, inp, m, called, args, corpus, year, upsMonthly,
                   minReturnRate, trace, log, result, runs>>

\* index.html, calculateResults: the results area is cleared, console.log is
\* redirected to it, runCalculator completes or throws, console.log is restored
calculateResults ==
    /\ entry = "browser"
    /\ pc = "idle"
    /\ page.run < MaxRuns
    /\ \E outcome \in {"completed", "threw"} :
           LET originalLog == page.consoleLog
           IN  page' = [page EXCEPT !.results = RunOutput(page.run + 1, outcome),
                                    !.consoleLog = originalLog,
                                    !.run = page.run + 1]
    /\ UNCHANGED <<pc, entry, inp, m, called, args, corpus, year, upsMonthly,
                   minReturnRate, trace, log, result, runs>>

\* a console.log call made between two clicks
LogOutside ==
    /\ entry = "browser"
    /\ pc = "idle"
    /\ page.outside < MaxOutsideLogs
    /\ LET line == [run |-> 0, text |-> "Outside"]
       IN  page' = IF page.consoleLog = "original"
                   THEN [page EXCEPT !.console = Append(@, line), !.outside = @ + 1]
                   ELSE [page EXCEPT !.results = Append(@, line), !.outside = @ + 1]
    /\ UNCHANGED <<pc, entry, inp, m, called, args, corpus, year, upsMonthly,
                   minReturnRate, trace, log, result, runs>>

CallUPSMonthlyPension ==
    /\ pc = "call"
    /\ called = {"calculateUPSMonthlyPension"}
    /\ result' = calculateUPSMonthlyPension(m.finalSalary, m.yearsOfService)
    /\ pc' = "returned"
    /\ UNCHANGED <<page, runs, entry, inp, m, called, args, corpus, year, upsMonthly,
                   minReturnRate, trace, log>>

CallUPSLumpSum ==
    /\ pc = "call"
    /\ called = {"calculateUPSLumpSum"}
    /\ result' = calculateUPSLumpSum(m.finalSalary, m.yearsOfService)
    /\ pc' = "returned"
    /\ UNCHANGED <<page, runs, entry, inp, m, called, args, corpus, year, upsMonthly,
                   minReturnRate, trace, log>>

CallNPSCorpus ==
    /\ pc = "call"
    /\ called = {"calculateNPSCorpus"}
    /\ result' = calculateNPSCorpus(m.currentSalary, m.growthRate, m.yearsToRetirement,
                                    m.totalContribRate, m.annualReturn, m.existingCorpus)
    /\ pc' = "returned"
    /\ UNCHANGED <<page, runs, entry, inp, m, called, args, corpus, year, upsMonthly,
                   minReturnRate, trace, log>>

\* mutant: upsMonthly is not re-initialised by the second call
Reinvoke_StaleUpsMonthly ==
    /\ pc = "returned"
    /\ entry = "direct"
    /\ runs = <<>>
    /\ runs' = <<[trace |-> trace, result |-> result]>>
    /\ corpus' = args.initialCorpus
    /\ year' = 0
    /\ minReturnRate' = null
    /\ trace' = <<>>
    /\ log' = <<"Header">>
    /\ result' = null
    /\ pc' = "loop"
    /\ UNCHANGED <<page, upsMonthly, entry, inp, m, called, args>>

\* a second call of calculateCorpusDepletionYears with the same arguments
\* (lines 85-95); runs keeps what the first call printed and returned
Reinvoke ==
    /\ pc = "returned"
    /\ entry = "direct"
    /\ runs = <<>>
    /\ runs' = <<[trace |-> trace, result |-> result]>>
    /\ corpus' = args.initialCorpus
    /\ year' = 0
    /\ upsMonthly' = args.upsMonthlyInitial
    /\ minReturnRate' = null
    /\ trace' = <<>>
    /\ log' = <<"Header">>
    /\ result' = null
    /\ pc' = "loop"
    /\ UNCHANGED <<page, entry, inp, m, called, args>>

\* mutant: the join-age test is inclusive
RejectJoinAge_Inclusive ==
    /\ pc = "validate"
    /\ Le(m.yearsOfService, Zero)
    /\ log' = Append(log, "JoinAgeMessage")
    /\ pc' = "done"
    /\ UNCHANGED <<page, runs, entry, inp, m, called, args, corpus, year, upsMonthly,
                   minReturnRate, trace, result>>

\* main, lines 211-214
RejectJoinAge ==
    /\ pc = "validate"
    /\ Lt(m.yearsOfService, Zero)
    /\ log' = Append(log, "JoinAgeMessage")
    /\ pc' = "done"
    /\ UNCHANGED <<page, runs, entry, inp, m, called, args, corpus, year, upsMonthly,
                   minReturnRate, trace, result>>

\* main, lines 217-220
RejectRetirementAge ==
    /\ pc = "validate"
    /\ ~Lt(m.yearsOfService, Zero)
    /\ Le(m.yearsToRetirement, Zero)
    /\ log' = Append(log, "RetirementAgeMessage")
    /\ pc' = "done"
    /\ UNCHANGED <<page, runs, entry, inp, m, called, args, corpus, year, upsMonthly,
                   minReturnRate, trace, result>>

\* main, lines 223-245, and the engine's lines 85-95
Calculate ==
    /\ pc = "validate"
    /\ ~Lt(m.yearsOfService, Zero)
    /\ ~Le(m.yearsToRetirement, Zero)
    /\ m' = Calculated(m)
    /\ called' = Calculators
    /\ args' = EngineArgs(m')
    /\ corpus' = args'.initialCorpus
    /\ year' = 0
    /\ upsMonthly' = args'.upsMonthlyInitial
    /\ minReturnRate' = null
    /\ log' = Append(log, "Header")
    /\ pc' = "loop"
    /\ UNCHANGED <<page, runs, entry, inp, trace, result>>

\* one iteration of the loop that ends in `return Infinity`
PerpetualExit ==
    /\ pc = "loop"
    /\ LoopCondition(args, year, corpus)
    /\ PerpetualCondition(args, year, corpus, upsMonthly)
    /\ trace' = Append(trace, Row(args, year, corpus, upsMonthly))
    /\ minReturnRate' = Div(yearlyDifference(args, year, corpus, upsMonthly),
                            args.initialCorpus)
    /\ log' = log \o <<"NeverDeplete">>
                  \o (IF minReturnRate' # null /\ isFinite(minReturnRate')
                      THEN <<"MinRatePerpetual">> ELSE <<>>)
    /\ result' = Infinity
    /\ pc' = "returned"
    /\ UNCHANGED <<page, runs, entry, inp, m, called, args, corpus, year, upsMonthly>>

\* one iteration of the loop that runs to its end
LoopStep ==
    /\ pc = "loop"
    /\ LoopCondition(args, year, corpus)
    /\ ~PerpetualCondition(args, year, corpus, upsMonthly)
    /\ trace' = Append(trace, Row(args, year, corpus, upsMonthly))
    /\ minReturnRate' = IF year = 0
                        THEN Div(yearlyDifference(args, year, corpus, upsMonthly),
                                 args.initialCorpus)
                        ELSE minReturnRate
    /\ corpus' = CorpusUpdate(args, year, corpus, upsMonthly)
    /\ upsMonthly' = UpsMonthlyUpdate(args, upsMonthly)
    /\ year' = year + 1
    /\ UNCHANGED <<page, runs, pc, entry, inp, m, called, args, log, result>>

\* the loop condition fails: lines 141-145
LoopExit ==
    /\ pc = "loop"
    /\ ~LoopCondition(args, year, corpus)
    /\ log' = IF Le(corpus, Zero) THEN Append(log, "Depleted") ELSE log
    /\ result' = Num(year)
    /\ pc' = "returned"
    /\ UNCHANGED <<page, runs, entry, inp, m, called, args, corpus, year, upsMonthly,
                   minReturnRate, trace>>

\* main, lines 262-286: the report computed from the engine's result
Reported(p, depletionYears) ==
    LET totalCoverageNeeded ==
            MathMax(p.employeeLifeYears,
                    Add(p.employeeLifeYears, p.spouseAdditionalYears))
        difference == Sub(Mul(p.upsMonthly, MONTHS_PER_YEAR),
                          Mul(p.npsMonthly, MONTHS_PER_YEAR))
    IN  [p EXCEPT !.depletionYears = depletionYears,
                  !.totalCoverageNeeded = totalCoverageNeeded,
                  !.shortfallYears =
                      IF depletionYears # Infinity /\ Lt(depletionYears, totalCoverageNeeded)
                      THEN Sub(totalCoverageNeeded, depletionYears) ELSE null,
                  !.minReturnRate =
                      IF depletionYears # Infinity THEN Div(difference, p.lumpSum)
                      ELSE null]

\* mutant: the static rate is printed after either branch
ReportLines_AlwaysStatic(p, depletionYears) ==
    <<"Results", "LifeExpectancy">>
    \o (IF Lt(p.spouseAdditionalYears, Zero) THEN <<"NegativeSpouseNote">> ELSE <<>>)
    \o (IF depletionYears = Infinity
        THEN <<"NeverDepleteSummary">>
        ELSE <<"WillLast">>
             \o (IF Lt(depletionYears, Reported(p, depletionYears).totalCoverageNeeded)
                 THEN <<"ShortfallWarning">> ELSE <<>>))
    \o <<"MinRateStatic">>

\* main, lines 247-286: the lines printed after the engine returns
ReportLines(p, depletionYears) ==
    <<"Results", "LifeExpectancy">>
    \o (IF Lt(p.spouseAdditionalYears, Zero) THEN <<"NegativeSpouseNote">> ELSE <<>>)
    \o (IF depletionYears = Infinity
        THEN <<"NeverDepleteSummary">>
        ELSE <<"WillLast">>
             \o (IF Lt(depletionYears, Reported(p, depletionYears).totalCoverageNeeded)
                 THEN <<"ShortfallWarning">> ELSE <<>>)
             \o <<"MinRateStatic">>)

Report ==
    /\ pc = "returned"
    /\ entry = "main"
    /\ m' = Reported(m, result)
    /\ log' = log \o ReportLines(m, result)
    /\ pc' = "done"
    /\ UNCHANGED <<page, runs, entry, inp, called, args, corpus, year, upsMonthly,
                   minReturnRate, trace, result>>

(***************************************************************************)
(* Properties.                                                             *)
(***************************************************************************)
EngineCalled == "calculateCorpusDepletionYears" \in called

EngineReturned == EngineCalled /\ pc \in {"returned", "done"}

Rows == 1..Len(trace)

\* the least integer not below the finite number x
Ceil(x) == -((-x.n) \div x.d)

\* year-0 incomes written out from the arguments
Year0Nps ==
    Add(Mul(args.npsMonthly, Num(12)), Mul(args.initialCorpus, args.corpusReturn))

Year0UpsEmployee ==
    Add(Mul(args.upsMonthlyInitial, Num(12)), Mul(args.upsLumpSum, args.corpusReturn))

Year0Ups ==
    Add(Mul(Mul(args.upsMonthlyInitial,
                IF Le(args.employeeLifeYears, Zero) THEN Rat(3, 5) ELSE One),
            Num(12)),
        Mul(args.upsLumpSum, args.corpusReturn))

LoopEntered ==
    /\ Gt(args.initialCorpus, Zero)
    /\ Gt(Add(args.employeeLifeYears, args.spouseAdditionalYears), Zero)

\* C1 as stated: for all inputs, whenever the year-0 NPS income is at least the
\* year-0 UPS income the engine returns Infinity with at most one row (checked
\* on the inputs whose initialCorpus is not negative).
C1_PerpetualForAllInputs ==
    (EngineReturned /\ Ge(args.initialCorpus, Zero) /\ Ge(Year0Nps, Year0UpsEmployee))
        => (result = Infinity /\ Len(trace) <= 1)

\* C1 (amended): if the loop is entered (initialCorpus > 0 and
\* employeeLifeYears + spouseAdditionalYears > 0) and the year-0 NPS income is
\* at least the year-0 UPS income (the pension taken with the spouse factor
\* when year 0 is a spouse year), the engine returns Infinity and at most one
\* trace row has been emitted.
C1_PerpetualWhenLoopEntered ==
    (EngineReturned /\ LoopEntered /\ Ge(Year0Nps, Year0Ups))
        => (result = Infinity /\ Len(trace) <= 1)

C1_Witness ==
    /\ EngineReturned
    /\ LoopEntered
    /\ Ge(Year0Nps, Year0Ups)
    /\ result = Infinity
    /\ Len(trace) = 1

\* the loop state after k per-year transitions from the initial state
RECURSIVE Projected(_, _)
Projected(a, k) ==
    IF k = 0 THEN [c |-> a.initialCorpus, u |-> a.upsMonthlyInitial]
    ELSE LET p == Projected(a, k - 1)
         IN  [c |-> CorpusUpdate(a, k - 1, p.c, p.u),
              u |-> UpsMonthlyUpdate(a, p.u)]

\* C2: whenever the engine returns Infinity, applying the per-year transition
\* for every year below employeeLifeYears + spouseAdditionalYears never brings
\* the corpus to a value <= 0.
C2_PerpetualNeverDepletes ==
    (EngineReturned /\ result = Infinity)
        => \A y \in 0..(totalYears(args).n - 1) :
               ~Le(Projected(args, y + 1).c, Zero)

\* C3: the loop runs at most max(0, employeeLifeYears + spouseAdditionalYears)
\* iterations, and with a non-positive sum it runs none, emits no row and
\* returns year 0.
C3_LoopBounded ==
    EngineCalled =>
        /\ Le(Num(Len(trace)), MathMax(Zero, totalYears(args)))
               \/ (IsNaN(totalYears(args)) /\ trace = <<>>)
        /\ year <= Len(trace)
        /\ (pc \in {"returned", "done"} /\ Le(totalYears(args), Zero))
               => (trace = <<>> /\ year = 0 /\ result = Num(0))

C3_Witness ==
    /\ EngineReturned
    /\ Gt(totalYears(args), Zero)
    /\ Num(Len(trace)) = totalYears(args)
    /\ result = totalYears(args)

C3_WitnessNoIteration ==
    EngineReturned /\ Le(totalYears(args), Zero) /\ Gt(args.initialCorpus, Zero)

AllRowsShort == \A i \in Rows : Gt(trace[i].totalUpsIncome, trace[i].totalNpsIncome)

StrictlyDecreasing ==
    /\ \A i \in Rows \ {Len(trace)} : Lt(trace[i + 1].corpus, trace[i].corpus)
    /\ Lt(corpus, trace[Len(trace)].corpus)

WithinCeil ==
    Len(trace) <= Ceil(Div(args.initialCorpus, trace[1].yearlyDifference))

\* C4 as stated: with corpusReturn = 0 and UPS income above NPS income in every
\* simulated year the corpus strictly decreases and the loop ends within
\* ceil(initialCorpus / year-0 difference) years.
C4_DepletionBoundYear0 ==
    (EngineReturned /\ args.corpusReturn = Zero /\ trace # <<>> /\ AllRowsShort)
        => (StrictlyDecreasing /\ WithinCeil)

\* C4 (amended): with corpusReturn = 0 and UPS income above NPS income in
\* every simulated year the corpus strictly decreases at every iteration; if
\* moreover no simulated year has a smaller difference than year 0, the loop
\* ends within ceil(initialCorpus / year-0 difference) years.
C4_DepletionMonotone ==
    (EngineCalled /\ args.corpusReturn = Zero /\ trace # <<>> /\ AllRowsShort)
        => /\ StrictlyDecreasing
           /\ (\A i \in Rows : Ge(trace[i].yearlyDifference, trace[1].yearlyDifference))
                  => WithinCeil

C4_Witness ==
    /\ EngineReturned
    /\ args.corpusReturn = Zero
    /\ Len(trace) >= 2
    /\ AllRowsShort
    /\ \A i \in Rows : Ge(trace[i].yearlyDifference, trace[1].yearlyDifference)
    /\ Len(trace) = Ceil(Div(args.initialCorpus, trace[1].yearlyDifference))
    /\ Le(corpus, Zero)

\* C5: in every iteration other than the perpetual exit the new corpus is
\* corpus*(1+corpusReturn) - max(0, totalUpsIncome - totalNpsIncome), where
\* totalNpsIncome includes the interest on the balance before the update.
C5_CorpusUpdate ==
    (EngineCalled /\ result # Infinity) =>
        \A i \in Rows :
            LET r == trace[i]
                after == IF i < Len(trace) THEN trace[i + 1].corpus ELSE corpus
            IN  /\ r.totalNpsIncome =
                       Add(Mul(args.npsMonthly, Num(12)), Mul(r.corpus, args.corpusReturn))
                /\ after = Sub(Mul(r.corpus, Add(One, args.corpusReturn)),
                               MathMax(Zero, Sub(r.totalUpsIncome, r.totalNpsIncome)))

C5_Witness ==
    /\ EngineReturned
    /\ result # Infinity
    /\ Len(trace) >= 2
    /\ Gt(args.corpusReturn, Zero)
    /\ Gt(trace[1].yearlyDifference, Zero)
    /\ Gt(corpus, Zero)

\* C6: the row of year y is tagged Employee iff y < employeeLifeYears and
\* Spouse otherwise, so no Employee row follows a Spouse row.
C6_PhaseByYear ==
    /\ \A i \in Rows :
           /\ trace[i].phase \in {"Employee", "Spouse"}
           /\ trace[i].phase = "Employee"
                  <=> Lt(Num(trace[i].year), args.employeeLifeYears)
    /\ \A i, j \in Rows :
           (i < j /\ trace[i].phase = "Spouse") => trace[j].phase = "Spouse"

C6_Witness ==
    /\ Len(trace) >= 3
    /\ trace[1].phase = "Employee"
    /\ trace[Len(trace)].phase = "Spouse"

\* C7: with retirementAge <= currentAge or joinAge > retirementAge main returns
\* before any calculator is called, and every run that reaches the calculators
\* has retirementAge - currentAge >= 1 and retirementAge - joinAge >= 0.
C7_InvalidAgesFailFast ==
    entry = "main" =>
        /\ (Le(m.retirementAge, m.currentAge) \/ Gt(m.joinAge, m.retirementAge))
               => (called = {} /\ trace = <<>> /\ ~(\E i \in DOMAIN log : log[i] = "Results"))
        /\ called # {}
               => /\ Ge(Sub(m.retirementAge, m.currentAge), One)
                  /\ Ge(Sub(m.retirementAge, m.joinAge), Zero)

ParsedInputs ==
    {"currentAge", "retirementAge", "currentSalary", "growthRate", "existingCorpus",
     "employeeRate", "employerRate", "annualReturn", "annuityRate", "postRetGrowth",
     "corpusReturn", "employeeLifeYears", "spouseAdditionalYears", "joinAge"}

\* C8: a run of main in which some input parses as NaN is rejected: no
\* calculator runs and no trace row or result summary is produced.
C8_NaNRejected ==
    (entry = "main" /\ \E f \in ParsedInputs : IsNaN(m[f]))
        => /\ called = {}
           /\ trace = <<>>
           /\ ~(\E i \in DOMAIN log : log[i] = "Results")

\* C9: a negative initialCorpus never becomes an ordinary result of
\* calculateCorpusDepletionYears (a year count, "depleted after 0 years").
C9_NegativeCorpusRejected ==
    (EngineReturned /\ Lt(args.initialCorpus, Zero))
        => /\ ~isFinite(result)
           /\ ~(\E i \in DOMAIN log : log[i] = "Depleted")

\* C10 (on numeric inputs): main prints the shortfall warning only if the
\* corpus reached <= 0 before max(employeeLifeYears, employeeLifeYears +
\* spouseAdditionalYears) years.
C10_WarningOnlyWhenDepleted ==
    (/\ entry = "main"
     /\ \A f \in ParsedInputs : isFinite(m[f])
     /\ \E i \in DOMAIN log : log[i] = "ShortfallWarning")
        => /\ Le(corpus, Zero)
           /\ Lt(Num(year), MathMax(m.employeeLifeYears,
                                    Add(m.employeeLifeYears, m.spouseAdditionalYears)))

Printed(line) == \E i \in DOMAIN log : log[i] = line

AllInputsNumeric == \A f \in ParsedInputs : isFinite(m[f])

\* C11 (on numeric inputs with a positive lump sum and horizon): the rate main
\* prints as the minimum for the 60% corpus to last perpetually is sufficient:
\* calculateCorpusDepletionYears run on the same arguments with corpusReturn
\* set to that rate returns Infinity.
C11_DisplayedRateSuffices ==
    (/\ entry = "main"
     /\ pc = "done"
     /\ AllInputsNumeric
     /\ Printed("MinRateStatic")
     /\ Gt(m.lumpSum, Zero)
     /\ Gt(totalYears(args), Zero))
        => LET again == [args EXCEPT !.corpusReturn = m.minReturnRate]
           IN  /\ LoopCondition(again, 0, again.initialCorpus)
               /\ PerpetualCondition(again, 0, again.initialCorpus,
                                     again.upsMonthlyInitial)

MinRateLines ==
    {i \in DOMAIN log : log[i] \in {"MinRatePerpetual", "MinRateStatic"}}

C17_CorpusSplit ==
    (entry = "main" /\ called # {}) =>
        /\ m.npsMonthly = Div(Mul(Mul(Rat(2, 5), m.corpus), m.annuityRate), Num(12))
        /\ args.initialCorpus = Mul(m.corpus, Rat(3, 5))
        /\ Add(Mul(Rat(2, 5), m.corpus), args.initialCorpus) = m.corpus

C17_Witness ==
    /\ entry = "main"
    /\ called # {}
    /\ Gt(m.corpus, Zero)
    /\ Gt(m.npsMonthly, Zero)
    /\ Gt(args.initialCorpus, Zero)

RejectionLines ==
    {i \in DOMAIN log : log[i] \in {"JoinAgeMessage", "RetirementAgeMessage"}}

\* C19: a run of main rejected for its ages prints exactly one rejection
\* message; the join-age message only if joinAge > retirementAge, the
\* retirement-age message only if retirementAge <= currentAge.
C19_OneTrueRejection ==
    entry = "main" =>
        /\ Cardinality(RejectionLines) <= 1
        /\ (pc = "done" /\ called = {}) => Cardinality(RejectionLines) = 1
        /\ Printed("JoinAgeMessage") => Gt(m.joinAge, m.retirementAge)
        /\ Printed("RetirementAgeMessage") => Le(m.retirementAge, m.currentAge)

C19_Witness ==
    /\ entry = "main"
    /\ pc = "done"
    /\ Printed("JoinAgeMessage")
    /\ Le(m.retirementAge, m.currentAge)

C19_WitnessRetirement ==
    entry = "main" /\ pc = "done" /\ Printed("RetirementAgeMessage")

\* C20 as stated: the corpus printed in the row of year y is the balance after
\* that year's growth and shortfall subtraction.
C20_RowHoldsEndingBalance ==
    (EngineCalled /\ result # Infinity) =>
        \A i \in Rows :
            trace[i].corpus = (IF i < Len(trace) THEN trace[i + 1].corpus ELSE corpus)

\* C20 (amended): the corpus printed in the row of year y is the opening
\* balance of year y: initialCorpus in year 0 and otherwise the balance left
\* by year y-1's growth and shortfall subtraction; the row's interest is
\* computed on it.
C20_RowHoldsOpeningBalance ==
    EngineCalled =>
        \A i \in Rows :
            /\ trace[i].interestEarned = Mul(trace[i].corpus, args.corpusReturn)
            /\ trace[i].corpus =
                   IF i = 1 THEN args.initialCorpus
                   ELSE Sub(Mul(trace[i - 1].corpus, Add(One, args.corpusReturn)),
                            MathMax(Zero, trace[i - 1].yearlyDifference))

C20_Witness ==
    /\ EngineReturned
    /\ Len(trace) >= 2
    /\ trace[1].corpus = args.initialCorpus
    /\ trace[2].corpus # trace[1].corpus
    /\ corpus # trace[2].corpus

UnitReturned(fn) == entry = "unit" /\ pc = "returned" /\ called = {fn}

\* C13 (finalSalary >= 0): calculateUPSMonthlyPension is 0.5*finalSalary/12 for
\* yearsOfService >= 25 and (yearsOfService/25)*0.5*finalSalary/12 for
\* 0 <= yearsOfService < 25; it is non-decreasing in yearsOfService and the two
\* expressions agree at 25.
C13_UPSMonthlyPension ==
    LET fs == m.finalSalary
        yos == m.yearsOfService
        linear == Div(Mul(Mul(Div(yos, Num(25)), Rat(1, 2)), fs), Num(12))
    IN  (UnitReturned("calculateUPSMonthlyPension") /\ isFinite(yos)) =>
            /\ Ge(yos, Num(25)) => result = Div(Mul(Rat(1, 2), fs), Num(12))
            /\ (Ge(yos, Zero) /\ Lt(yos, Num(25))) => result = linear
            /\ yos = Num(25) => result = linear
            /\ (Ge(yos, Zero) /\ Ge(fs, Zero)) =>
                   \A later \in ServiceYearsValues :
                       Le(yos, later) => Le(result, calculateUPSMonthlyPension(fs, later))

C13_Witness ==
    /\ UnitReturned("calculateUPSMonthlyPension")
    /\ Gt(m.yearsOfService, Num(25))
    /\ Gt(m.finalSalary, Zero)
    /\ result = Div(m.finalSalary, Num(24))

C13_WitnessLinear ==
    /\ UnitReturned("calculateUPSMonthlyPension")
    /\ m.yearsOfService = Num(5)
    /\ result = Div(m.finalSalary, Num(120))
    /\ Gt(result, Zero)

\* the balance after i years of the year-by-year recurrence of C14
RECURSIVE Balance(_, _)
Balance(i, p) ==
    IF i = 0 THEN p.existingCorpus
    ELSE Add(Mul(Balance(i - 1, p), Add(One, p.annualReturn)),
             Mul(Mul(p.totalContribRate, p.currentSalary),
                 PowInt(Add(One, p.growthRate), i)))

\* C14: for years >= 0 calculateNPSCorpus equals B_years of the recurrence
\* B_0 = existingCorpus, B_i = B_(i-1)*(1+annualReturn)
\*                            + totalContribRate*currentSalary*(1+growthRate)^i.
C14_EndOfYearContributions ==
    (UnitReturned("calculateNPSCorpus") /\ Ge(m.yearsToRetirement, Zero))
        => result = Balance(m.yearsToRetirement.n, m)

C14_Witness ==
    /\ UnitReturned("calculateNPSCorpus")
    /\ Ge(m.yearsToRetirement, Num(2))
    /\ Gt(m.annualReturn, Zero)
    /\ Gt(m.totalContribRate, Zero)
    /\ Gt(m.currentSalary, Zero)
    /\ m.growthRate # Zero
    /\ m.existingCorpus # Zero

\* C15: with totalContribRate = 0 and annualReturn = 0 calculateNPSCorpus
\* returns existingCorpus, for every currentSalary, growthRate and years >= 0.
C15_ZeroRatesKeepCorpus ==
    (/\ UnitReturned("calculateNPSCorpus")
     /\ Ge(m.yearsToRetirement, Zero)
     /\ m.totalContribRate = Zero
     /\ m.annualReturn = Zero)
        => result = m.existingCorpus

C15_Witness ==
    /\ UnitReturned("calculateNPSCorpus")
    /\ Ge(m.yearsToRetirement, Num(2))
    /\ m.totalContribRate = Zero
    /\ m.annualReturn = Zero
    /\ Gt(m.currentSalary, Zero)
    /\ m.growthRate # Zero
    /\ m.existingCorpus # Zero

FiniteArgs == \A f \in DOMAIN args : isFinite(args[f])

\* C21: the engine returns Infinity only if the loop was entered and the year-0
\* NPS income is at least the year-0 UPS income, and then year 0 is its only
\* row; a later year y >= 1 in which the NPS income is at least the UPS income
\* does not end the run, which returns a finite year count above y.
C21_PerpetualOnlyAtYear0 ==
    EngineReturned =>
        /\ result = Infinity =>
               (LoopEntered /\ Ge(Year0Nps, Year0Ups) /\ Len(trace) = 1 /\ year = 0)
        /\ \A i \in Rows :
               (i >= 2 /\ Ge(trace[i].totalNpsIncome, trace[i].totalUpsIncome))
                   => (isFinite(result) /\ result.n >= i)

C21_Witness ==
    /\ EngineReturned
    /\ isFinite(result)
    /\ \E i \in Rows : i >= 2 /\ Gt(trace[i].totalNpsIncome, trace[i].totalUpsIncome)

C23_OneRowPerYear ==
    EngineCalled =>
        /\ \A i \in Rows : trace[i].year = i - 1
        /\ pc = "loop" => Len(trace) = year
        /\ EngineReturned =>
               IF result = Infinity THEN Len(trace) = 1 ELSE result = Num(Len(trace))

C23_Witness ==
    /\ entry = "main"
    /\ pc = "done"
    /\ Len(trace) >= 2
    /\ result = Num(Len(trace))

\* C24: in every row the UPS lump-sum return is upsLumpSum*corpusReturn, the
\* value of year 0.
C24_UpsLumpSumReturnConstant ==
    EngineCalled =>
        \A i \in Rows :
            /\ trace[i].upsReturn = Mul(args.upsLumpSum, args.corpusReturn)
            /\ trace[i].upsReturn = trace[1].upsReturn

C24_Witness ==
    /\ EngineCalled
    /\ Len(trace) >= 2
    /\ Gt(trace[2].upsReturn, Zero)
    /\ Lt(trace[2].corpus, trace[1].corpus)

\* the balance left by the iteration that printed row i
BalanceAfter(i) == IF i < Len(trace) THEN trace[i + 1].corpus ELSE corpus

\* C26 (finite arguments): every iteration leaves at most corpus*(1+corpusReturn),
\* exactly that when the year's NPS income is at least its UPS income, and after
\* k iterations the corpus is at most initialCorpus*(1+corpusReturn)^k.
C26_SurplusNeverCredited ==
    (EngineCalled /\ FiniteArgs /\ result # Infinity) =>
        \A i \in Rows :
            LET grown == Mul(trace[i].corpus, Add(One, args.corpusReturn))
            IN  /\ Le(BalanceAfter(i), grown)
                /\ (BalanceAfter(i) = grown)
                       <=> Ge(trace[i].totalNpsIncome, trace[i].totalUpsIncome)
                /\ Le(BalanceAfter(i),
                      Mul(args.initialCorpus, PowInt(Add(One, args.corpusReturn), i)))

C26_Witness ==
    /\ EngineCalled
    /\ FiniteArgs
    /\ result # Infinity
    /\ \E i \in Rows : Gt(trace[i].totalNpsIncome, trace[i].totalUpsIncome)
    /\ \E i \in Rows : Lt(trace[i].totalNpsIncome, trace[i].totalUpsIncome)

\* C27 (finite arguments, initialCorpus > 0): a call that returns
\* employeeLifeYears + spouseAdditionalYears does not print the depletion
\* message, and a run of main whose engine printed it prints the shortfall
\* warning.
C27_DepletedExcludesHorizon ==
    (EngineReturned /\ FiniteArgs /\ Gt(args.initialCorpus, Zero)) =>
        /\ result = totalYears(args) => ~Printed("Depleted")
        /\ (entry = "main" /\ pc = "done" /\ Printed("Depleted"))
               => Printed("ShortfallWarning")

\* C28: when the engine returns Infinity the rate it recorded,
\* yearlyDifference/initialCorpus of year 0, is at most 0.
C28_PerpetualRateNotPositive ==
    (EngineReturned /\ result = Infinity) =>
        /\ minReturnRate = Div(Sub(Year0Ups, Year0Nps), args.initialCorpus)
        /\ Le(minReturnRate, Zero)

C28_Witness ==
    /\ EngineReturned
    /\ result = Infinity
    /\ Lt(minReturnRate, Zero)

\* C29: minReturnRate is assigned only with initialCorpus > 0, and with finite
\* arguments the recorded rate is finite.
C29_RateDividesByPositiveCorpus ==
    (EngineCalled /\ minReturnRate # null) =>
        /\ Gt(args.initialCorpus, Zero)
        /\ FiniteArgs => isFinite(minReturnRate)

C29_Witness ==
    /\ EngineReturned
    /\ FiniteArgs
    /\ minReturnRate # null
    /\ Gt(minReturnRate, Zero)

\* C30 (numeric inputs, existingCorpus >= 0): whenever main prints the static
\* rate difference/lumpSum, lumpSum is positive and the rate is finite.
C30_StaticRateDefined ==
    (/\ entry = "main"
     /\ pc = "done"
     /\ Printed("MinRateStatic")
     /\ AllInputsNumeric
     /\ Ge(m.existingCorpus, Zero))
        => (Gt(m.lumpSum, Zero) /\ isFinite(m.minReturnRate))

\* C25: after calculateResults returns, whether runCalculator completed or
\* threw, console.log is the original function and the results area holds the
\* lines of the latest run only: none of an earlier run, none logged outside a
\* run.
C25_BrowserRunsIndependent ==
    entry = "browser" =>
        /\ page.consoleLog = "original"
        /\ \A i \in DOMAIN page.results : page.results[i].run = page.run

C25_Witness ==
    /\ entry = "browser"
    /\ page.run >= 2
    /\ page.console # <<>>
    /\ \E i \in DOMAIN page.results : page.results[i].text = "Report"

C25_WitnessThrew ==
    /\ entry = "browser"
    /\ page.run >= 2
    /\ page.console # <<>>
    /\ \E i \in DOMAIN page.results : page.results[i].text = "Error"

Next ==
    \/ RejectJoinAge
    \/ RejectRetirementAge
    \/ Calculate
    \/ PerpetualExit
    \/ LoopStep
    \/ LoopExit
    \/ Report
    \/ CallUPSMonthlyPension
    \/ CallUPSLumpSum
    \/ CallNPSCorpus
    \/ Reinvoke
    \/ calculateResults
    \/ LogOutside

Spec == Init /\ [][Next]_vars
====
